---- MODULE Spec2Model ----
(***************************************************************************)
(* smart-task-planner: the AI service (app/services/ai_service.py), its    *)
(* remote call wrapper _call_ai_api with the tenacity retry decorator, and *)
(* the request handlers that call it (app/routers/tasks.py, ai.py).        *)
(*                                                                         *)
(* Text.  A Python str is a sequence of characters.  The module's strings  *)
(* are ASCII only, so every Cyrillic letter is written as one token of     *)
(* its Latin transliteration ("r" "a" "b" "o" "t" for the stem rabot), an  *)
(* upper-case letter as the upper-case token ("R").  One token is one      *)
(* character: len(), substring search and lower() work on tokens.          *)
(***************************************************************************)
EXTENDS Integers, Sequences, FiniteSets, TLC

VARIABLES
    use_mock,   \* AIService.use_mock
    req,        \* the HTTP request being handled (its handler, body, caller)
    pc,         \* position of the handler of req
    call,       \* per branch: the state of one _call_ai_api invocation
    val,        \* per branch: what categorize_task / estimate_time returned
    response,   \* the HTTP response of the handler
    tasks,      \* rows of the tasks table
    next_id,    \* next primary key of the tasks table
    users,      \* rows of the users table
    now,        \* the clock (datetime.utcnow()), in whole seconds
    token,      \* the bearer token the client holds
    reg         \* per worker thread: the register request it is handling

vars == <<use_mock, req, pc, call, val, response, tasks, next_id,
          users, now, token, reg>>

\* the state of authentication and registration
auth_vars == <<users, now, token, reg>>

----------------------------------------------------------------------------
(* Characters and strings *)

\* str.lower() on the Cyrillic alphabet: upper-case token -> lower-case token
UpperToLower ==
    ("A" :> "a") @@ ("B" :> "b") @@ ("V" :> "v") @@ ("G" :> "g") @@
    ("D" :> "d") @@ ("E" :> "e") @@ ("YO" :> "yo") @@ ("ZH" :> "zh") @@
    ("Z" :> "z") @@ ("I" :> "i") @@ ("J" :> "j") @@ ("K" :> "k") @@
    ("L" :> "l") @@ ("M" :> "m") @@ ("N" :> "n") @@ ("O" :> "o") @@
    ("P" :> "p") @@ ("R" :> "r") @@ ("S" :> "s") @@ ("T" :> "t") @@
    ("U" :> "u") @@ ("F" :> "f") @@ ("H" :> "h") @@ ("C" :> "c") @@
    ("CH" :> "ch") @@ ("SH" :> "sh") @@ ("SCH" :> "sch") @@
    ("HARD" :> "hard") @@ ("Y" :> "y") @@ ("SOFT" :> "soft") @@
    ("EH" :> "eh") @@ ("YU" :> "yu") @@ ("YA" :> "ya")

lower(s) ==
    [i \in 1..Len(s) |-> IF s[i] \in DOMAIN UpperToLower
                         THEN UpperToLower[s[i]] ELSE s[i]]

Whitespace == {" ", "nl"}

\* str.strip(): drop leading and trailing whitespace
RECURSIVE lstrip(_)
lstrip(s) == IF s # <<>> /\ Head(s) \in Whitespace THEN lstrip(Tail(s)) ELSE s

RECURSIVE rstrip(_)
rstrip(s) ==
    IF s # <<>> /\ s[Len(s)] \in Whitespace
    THEN rstrip(SubSeq(s, 1, Len(s) - 1)) ELSE s

strip(s) == rstrip(lstrip(s))

\* the Python test  w in s  on strings
Contains(s, w) ==
    \E i \in 1..(Len(s) - Len(w) + 1) : SubSeq(s, i, i + Len(w) - 1) = w

\* any(word in s for word in words)
AnyIn(words, s) == \E w \in words : Contains(s, w)

Digits ==
    ("0" :> 0) @@ ("1" :> 1) @@ ("2" :> 2) @@ ("3" :> 3) @@ ("4" :> 4) @@
    ("5" :> 5) @@ ("6" :> 6) @@ ("7" :> 7) @@ ("8" :> 8) @@ ("9" :> 9)

\* int() of a string of digits
RECURSIVE ParseInt(_)
ParseInt(s) ==
    IF s = <<>> THEN 0
    ELSE 10 * ParseInt(SubSeq(s, 1, Len(s) - 1)) + Digits[s[Len(s)]]

\* the longest run of digits at the head of s
RECURSIVE DigitRun(_)
DigitRun(s) ==
    IF s # <<>> /\ Head(s) \in DOMAIN Digits
    THEN <<Head(s)>> \o DigitRun(Tail(s)) ELSE <<>>

\* re.findall(r'\d+', s): the runs of digits of s, left to right
RECURSIVE findall_digits(_)
findall_digits(s) ==
    IF s = <<>> THEN <<>>
    ELSE IF Head(s) \in DOMAIN Digits
         THEN <<DigitRun(s)>>
              \o findall_digits(SubSeq(s, Len(DigitRun(s)) + 1, Len(s)))
         ELSE findall_digits(Tail(s))

----------------------------------------------------------------------------
(* Enumerations of app/schemas.py *)

WORK == "work"
PERSONAL == "personal"
HEALTH == "health"
LEARNING == "learning"
OTHER_ == "other"
TaskCategoryEnum == {WORK, PERSONAL, HEALTH, LEARNING, OTHER_}

LOW == "low"
MEDIUM == "medium"
HIGH == "high"
TaskPriorityEnum == {LOW, MEDIUM, HIGH}

NEW_ == "new"
IN_PROGRESS == "in_progress"
DONE == "done"
TaskStatusEnum == {NEW_, IN_PROGRESS, DONE}

\* Optional[T]: None is the empty tuple, a value v is the one-tuple <<v>>
None == <<>>
Some(v) == <<v>>

----------------------------------------------------------------------------
(* The deterministic heuristics *)

work_words ==
    { <<"r", "a", "b", "o", "t">>,
      <<"p", "r", "o", "e", "k", "t">>,
      <<"k", "l", "i", "e", "n", "t">>,
      <<"o", "t", "ch", "e", "t">>,
      <<"p", "r", "e", "z", "e", "n", "t", "a", "c">>,
      <<"b", "i", "z", "n", "e", "s">>,
      <<"o", "f", "i", "s">>,
      <<"s", "o", "v", "e", "sch", "a", "n">> }

personal_words ==
    { <<"l", "i", "ch", "n">>,
      <<"s", "e", "m", "soft">>,
      <<"d", "r", "u", "z">>,
      <<"h", "o", "b", "b", "i">>,
      <<"o", "t", "d", "y", "h">>,
      <<"r", "a", "z", "v", "l", "e", "k">>,
      <<"p", "o", "k", "u", "p", "k">> }

health_words ==
    { <<"s", "p", "o", "r", "t">>,
      <<"t", "r", "e", "n">>,
      <<"z", "d", "o", "r", "o", "v">>,
      <<"v", "r", "a", "ch">>,
      <<"b", "o", "l", "soft", "n", "i", "c">>,
      <<"m", "e", "d", "i", "c">>,
      <<"u", "p", "r", "a", "zh">>,
      <<"d", "i", "e", "t">> }

learning_words ==
    { <<"u", "ch", "i", "t">>,
      <<"k", "u", "r", "s">>,
      <<"k", "n", "i", "g">>,
      <<"l", "e", "k", "c">>,
      <<"o", "b", "r", "a", "z", "o", "v">>,
      <<"sh", "k", "o", "l">>,
      <<"u", "n", "i", "v", "e", "r">>,
      <<"t", "r", "e", "n", "i", "n", "g">> }

\* the four tests in another order: learning first
_get_mock_category_learning_first(description) ==
    LET description_lower == lower(description) IN
    IF AnyIn(learning_words, description_lower) THEN LEARNING
    ELSE IF AnyIn(work_words, description_lower) THEN WORK
    ELSE IF AnyIn(personal_words, description_lower) THEN PERSONAL
    ELSE IF AnyIn(health_words, description_lower) THEN HEALTH
    ELSE OTHER_

_get_mock_category(description) ==
    LET description_lower == lower(description) IN
    IF AnyIn(work_words, description_lower) THEN WORK
    ELSE IF AnyIn(personal_words, description_lower) THEN PERSONAL
    ELSE IF AnyIn(health_words, description_lower) THEN HEALTH
    ELSE IF AnyIn(learning_words, description_lower) THEN LEARNING
    ELSE OTHER_

\* the five phrase lists of _get_mock_estimated_time, in the order tested
short_words ==
    { <<"m", "i", "n", "u", "t">>,
      <<"b", "y", "s", "t", "r">>,
      <<"s", "r", "o", "ch", "n">> }

hour_words ==
    { <<"ch", "a", "s">>,
      <<"l", "e", "k", "c">>,
      <<"v", "s", "t", "r", "e", "ch">> }

halfday_words ==
    { <<"p", "o", "l", "d", "n", "ya">>,
      <<"4", " ", "ch", "a", "s">>,
      <<"n", "e", "s", "k", "o", "l", "soft", "k", " ", "ch", "a", "s">> }

day_words ==
    { <<"d", "e", "n", "soft">>,
      <<"s", "u", "t", "k">> }

complex_words ==
    { <<"b", "o", "l", "soft", "sh">>,
      <<"s", "l", "o", "zh", "n">>,
      <<"p", "r", "o", "e", "k", "t">>,
      <<"d", "i", "p", "l", "o", "m">> }

\* the more specific half-day phrases tested before the hour phrases
_get_mock_estimated_time_halfday_first(description) ==
    LET description_lower == lower(description) IN
    IF AnyIn(short_words, description_lower) THEN 15
    ELSE IF AnyIn(halfday_words, description_lower) THEN 240
    ELSE IF AnyIn(hour_words, description_lower) THEN 60
    ELSE IF AnyIn(day_words, description_lower) THEN 480
    ELSE IF AnyIn(complex_words, description_lower) THEN 120
    ELSE 30

_get_mock_estimated_time(description) ==
    LET description_lower == lower(description) IN
    IF AnyIn(short_words, description_lower) THEN 15
    ELSE IF AnyIn(hour_words, description_lower) THEN 60
    ELSE IF AnyIn(halfday_words, description_lower) THEN 240
    ELSE IF AnyIn(day_words, description_lower) THEN 480
    ELSE IF AnyIn(complex_words, description_lower) THEN 120
    ELSE 30

\* the meeting words tested before the writing words
_generate_subtasks_meeting_first(description) ==
    LET desc == lower(description) IN
    IF \/ Contains(desc, <<"v", "s", "t", "r", "e", "ch", "a">>)
       \/ Contains(desc, <<"z", "v", "o", "n", "o", "k">>)
    THEN <<"prepare the agenda", "invite participants", "hold the meeting",
           "record decisions">>
    ELSE IF \/ Contains(desc, <<"n", "a", "p", "i", "s", "a", "t", "soft">>)
            \/ Contains(desc, <<"s", "o", "z", "d", "a", "t", "soft">>)
    THEN <<"research requirements", "make a plan", "prepare a draft", "do a review">>
    ELSE <<"start work", "do the main part", "check the result", "finish">>

\* the three templates of _generate_subtasks; a subtask is named by its step
_generate_subtasks(description) ==
    LET desc == lower(description) IN
    IF \/ Contains(desc, <<"n", "a", "p", "i", "s", "a", "t", "soft">>)
       \/ Contains(desc, <<"s", "o", "z", "d", "a", "t", "soft">>)
    THEN <<"research requirements", "make a plan", "prepare a draft", "do a review">>
    ELSE IF \/ Contains(desc, <<"v", "s", "t", "r", "e", "ch", "a">>)
            \/ Contains(desc, <<"z", "v", "o", "n", "o", "k">>)
    THEN <<"prepare the agenda", "invite participants", "hold the meeting",
           "record decisions">>
    ELSE <<"start work", "do the main part", "check the result", "finish">>

\* the two comparisons written with <
_determine_priority_strict(minutes) ==
    IF minutes < 15 THEN LOW
    ELSE IF minutes < 60 THEN MEDIUM
    ELSE HIGH

_determine_priority(minutes) ==
    IF minutes <= 15 THEN LOW
    ELSE IF minutes <= 60 THEN MEDIUM
    ELSE HIGH

----------------------------------------------------------------------------
(* Exceptions *)

NoExc == [type |-> "none", status_code |-> 0, detail |-> <<>>]
Exc(t) == [type |-> t, status_code |-> 0, detail |-> <<>>]
\* fastapi.HTTPException(status_code=..., detail=...)
HTTPException(status_code, detail) ==
    [type |-> "HTTPException", status_code |-> status_code, detail |-> detail]

\* every exception class of the model derives from Exception
ExceptionTypes ==
    { "TimeoutException", "HTTPStatusError", "ConnectError", "JSONDecodeError",
      "IndexError", "AIQuotaExceededError", "AITimeoutError", "HTTPException",
      "RetryError" }

----------------------------------------------------------------------------
(* What the upstream endpoint can do with one POST *)

\* the contents the upstream model may put in its reply
Replies ==
    { <<" ", "R", "a", "b", "o", "t", "a", "nl">>,      \* " Rabota\n"
      <<"4", "5">>,
      <<"0">>,
      <<"2", "0", "0", "0">>,
      <<>> }

\* one entry of the "choices" list: its "message" (given by the message's
\* "content") and its "text", each Optional
Choice(message, text) == [message |-> message, text |-> text]

\* the decoded JSON body; valid = FALSE is a body that is not JSON
Body(has_choices, choices) ==
    [valid |-> TRUE, has_choices |-> has_choices, choices |-> choices]
NotJson == [valid |-> FALSE, has_choices |-> FALSE, choices |-> <<>>]
NoChoicesKey == Body(FALSE, <<>>)
EmptyChoices == Body(TRUE, <<>>)

Bodies ==
    { Body(TRUE, <<Choice(Some(r), None)>>) : r \in Replies }
    \cup { Body(TRUE, <<Choice(None, Some(r))>>) :
             r \in { <<"4", "5">>, <<>> } }
    \cup { Body(TRUE, <<Choice(Some(<<"4", "5">>),
                               Some(<<"R", "a", "b", "o", "t", "a">>))>>),
           Body(TRUE, <<Choice(None, None)>>),
           NoChoicesKey, EmptyChoices, NotJson }

ErrorStatusCodes == {400, 402, 404, 429, 500, 503}

\* kind: "timeout" (httpx.TimeoutException), "error" (any other failure of
\* the POST, e.g. httpx.ConnectError), "response" (a status code and a body)
NoOutcome == [kind |-> "none", status_code |-> 0, body |-> NotJson]
Outcomes ==
    { [kind |-> "timeout", status_code |-> 0, body |-> NotJson],
      [kind |-> "error", status_code |-> 0, body |-> NotJson] }
    \cup { [kind |-> "response", status_code |-> 200, body |-> b] : b \in Bodies }
    \cup { [kind |-> "response", status_code |-> c, body |-> NotJson] :
             c \in ErrorStatusCodes }

----------------------------------------------------------------------------
(* _call_ai_api: one pass of the attempt loop, and the retry decorator *)

max_retries == 3

RECURSIVE Pow2(_)
Pow2(n) == IF n = 0 THEN 1 ELSE 2 * Pow2(n - 1)

Max(a, b) == IF a >= b THEN a ELSE b
Min(a, b) == IF a <= b THEN a ELSE b

\* the try block: ctl is "continue" (the 429 branch), "return" or "raise"
TryBody(attempt, o) ==
    LET R(ctl, slept, value, exc) ==
            [ctl |-> ctl, slept |-> slept, value |-> value, exc |-> exc]
        data == o.body
    IN
    IF o.kind = "timeout" THEN R("raise", 0, None, Exc("TimeoutException"))
    ELSE IF o.kind = "error" THEN R("raise", 0, None, Exc("ConnectError"))
    ELSE IF o.status_code = 402
    THEN R("raise", 0, None, Exc("AIQuotaExceededError"))
    ELSE IF o.status_code = 429 /\ attempt < max_retries
    THEN R("continue", Pow2(attempt), None, NoExc)
    \* response.raise_for_status()
    ELSE IF ~(o.status_code \in 200..299)
    THEN R("raise", 0, None,
           [type |-> "HTTPStatusError", status_code |-> o.status_code,
            detail |-> <<>>])
    \* data = response.json()
    ELSE IF ~data.valid THEN R("raise", 0, None, Exc("JSONDecodeError"))
    ELSE IF data.has_choices
    THEN IF data.choices = <<>>
         THEN R("raise", 0, None, Exc("IndexError"))
         ELSE IF data.choices[1].message # None
         THEN R("return", 0, Some(strip(data.choices[1].message[1])), NoExc)
         ELSE IF data.choices[1].text # None /\ data.choices[1].text[1] # <<>>
         THEN R("return", 0, Some(strip(data.choices[1].text[1])), NoExc)
         ELSE R("return", 0, None, NoExc)
    ELSE R("return", 0, None, NoExc)

\* the except clauses with the HTTPStatusError test "status_code >= 400":
\* client errors are retried like server errors
ExceptHandlers_retry_4xx(attempt, e) ==
    LET R(ctl, slept, exc) == [ctl |-> ctl, slept |-> slept, exc |-> exc] IN
    IF e.type = "TimeoutException"
    THEN IF attempt = max_retries
         THEN R("raise", 0, Exc("AITimeoutError"))
         ELSE R("fall", 0, NoExc)
    ELSE IF e.type = "HTTPStatusError"
    THEN IF e.status_code >= 400 /\ attempt < max_retries
         THEN R("fall", Pow2(attempt), NoExc)
         ELSE R("raise", 0,
                HTTPException(502, <<"AI service error", e.status_code>>))
    ELSE IF attempt = max_retries
         THEN R("raise", 0, HTTPException(500, <<"AI service unavailable">>))
         ELSE R("fall", 0, NoExc)

\* the except clauses: ctl is "fall" (go on to the loop tail) or "raise"
ExceptHandlers(attempt, e) ==
    LET R(ctl, slept, exc) == [ctl |-> ctl, slept |-> slept, exc |-> exc] IN
    IF e.type = "TimeoutException"
    THEN IF attempt = max_retries
         THEN R("raise", 0, Exc("AITimeoutError"))
         ELSE R("fall", 0, NoExc)
    ELSE IF e.type = "HTTPStatusError"
    THEN IF e.status_code >= 500 /\ attempt < max_retries
         THEN R("fall", Pow2(attempt), NoExc)
         ELSE R("raise", 0,
                HTTPException(502, <<"AI service error", e.status_code>>))
    ELSE IF attempt = max_retries
         THEN R("raise", 0, HTTPException(500, <<"AI service unavailable">>))
         ELSE R("fall", 0, NoExc)

\* the loop tail: attempt += 1, then the sleep before the next pass
LoopTailSleep(attempt) ==
    IF attempt + 1 <= max_retries THEN Pow2(attempt + 1) ELSE 0

\* the loop with the 429 branch's "attempt += 1" left out: the retry after a
\* 429 does not count against the attempts
LoopIteration_429_uncounted(attempt, o) ==
    LET R(ctl, a, slept, value, exc) ==
            [ctl |-> ctl, attempt |-> a, slept |-> slept, value |-> value,
             exc |-> exc]
        t == TryBody(attempt, o)
        h == ExceptHandlers(attempt, t.exc)
    IN
    IF t.ctl = "continue" THEN R("loop", attempt, t.slept, None, NoExc)
    ELSE IF t.ctl = "return" THEN R("return", attempt, 0, t.value, NoExc)
    ELSE IF h.ctl = "raise" THEN R("raise", attempt, 0, None, h.exc)
    ELSE IF attempt + 1 <= max_retries
    THEN R("loop", attempt + 1, h.slept + LoopTailSleep(attempt), None, NoExc)
    ELSE R("return", attempt + 1, h.slept, None, NoExc)

\* one pass of the while loop with upstream outcome o: ctl is "loop" (back
\* to the loop head with the new attempt), "return" or "raise"
LoopIteration(attempt, o) ==
    LET R(ctl, a, slept, value, exc) ==
            [ctl |-> ctl, attempt |-> a, slept |-> slept, value |-> value,
             exc |-> exc]
        t == TryBody(attempt, o)
        h == ExceptHandlers(attempt, t.exc)
    IN
    IF t.ctl = "continue" THEN R("loop", attempt + 1, t.slept, None, NoExc)
    ELSE IF t.ctl = "return" THEN R("return", attempt, 0, t.value, NoExc)
    ELSE IF h.ctl = "raise" THEN R("raise", attempt, 0, None, h.exc)
    ELSE IF attempt + 1 <= max_retries
    THEN R("loop", attempt + 1, h.slept + LoopTailSleep(attempt), None, NoExc)
    \* the loop ends without a reply: return None
    ELSE R("return", attempt + 1, h.slept, None, NoExc)

\* tenacity: stop_after_attempt(3)
stop_after_attempt == 3

\* tenacity: retry_if_exception_type((TimeoutException, HTTPStatusError,
\* AITimeoutError))
retry_if_exception_type(e) ==
    e.type \in {"TimeoutException", "HTTPStatusError", "AITimeoutError"}

\* tenacity: wait_exponential(multiplier=1, min=2, max=10) after the
\* attempt_number-th call of the function has failed
wait_exponential(attempt_number) ==
    Max(Max(0, 2), Min(1 * Pow2(attempt_number - 1), 10))

\* the decorator with stop_after_attempt(4)
RetryDecorator_stop_after_4(attempt_number, e) ==
    IF ~retry_if_exception_type(e)
    THEN [ctl |-> "raise", slept |-> 0, exc |-> e]
    ELSE IF attempt_number >= 4
    THEN [ctl |-> "raise", slept |-> 0, exc |-> Exc("RetryError")]
    ELSE [ctl |-> "retry", slept |-> wait_exponential(attempt_number),
          exc |-> NoExc]

\* the decorator, when the attempt_number-th call of the function raised e:
\* "reraise" e, give up with RetryError, or sleep and "retry"
RetryDecorator(attempt_number, e) ==
    IF ~retry_if_exception_type(e)
    THEN [ctl |-> "raise", slept |-> 0, exc |-> e]
    ELSE IF attempt_number >= stop_after_attempt
    THEN [ctl |-> "raise", slept |-> 0, exc |-> Exc("RetryError")]
    ELSE [ctl |-> "retry", slept |-> wait_exponential(attempt_number),
          exc |-> NoExc]

----------------------------------------------------------------------------
(* The state of one invocation of _call_ai_api (with its decorator) *)

Branches == {"cat", "time"}

\* attempt: the loop counter; attempt_number: which call of the function by
\* the decorator this is; requests: POSTs sent so far; last, last_attempt:
\* the outcome of the latest POST and the attempt it was sent on; slept: the
\* seconds slept since that POST; run429: the 429 replies in a row up to it
IdleCall ==
    [st |-> "idle", attempt |-> 0, attempt_number |-> 0, requests |-> 0,
     last |-> NoOutcome, last_attempt |-> 0, slept |-> 0, run429 |-> 0,
     value |-> None, exc |-> NoExc]

\* entry of the function: attempt = 1 (line 84)
StartCall == [IdleCall EXCEPT !.st = "running", !.attempt = 1, !.attempt_number = 1]

NoVal == [st |-> "none", value |-> None, exc |-> NoExc]
Return(v) == [st |-> "return", value |-> Some(v), exc |-> NoExc]
Raise(e) == [st |-> "raise", value |-> None, exc |-> e]

\* one POST of invocation b, the upstream's answer o, and everything the
\* loop and the decorator do up to the next POST or the end of the call
AfterRequest(c, o) ==
    LET it == LoopIteration(c.attempt, o)
        d == RetryDecorator(c.attempt_number, it.exc)
        sent == [c EXCEPT !.requests = @ + 1, !.last = o,
                          !.last_attempt = c.attempt,
                          !.run429 = IF o.status_code = 429 THEN @ + 1 ELSE 0]
    IN
    IF it.ctl = "loop"
    THEN [sent EXCEPT !.attempt = it.attempt, !.slept = it.slept]
    ELSE IF it.ctl = "return"
    THEN [sent EXCEPT !.st = "returned", !.attempt = it.attempt,
                      !.slept = it.slept, !.value = it.value]
    ELSE IF d.ctl = "retry"
    THEN [sent EXCEPT !.attempt = 1, !.attempt_number = @ + 1,
                      !.slept = d.slept]
    ELSE [sent EXCEPT !.st = "raised", !.slept = 0, !.exc = d.exc]

HttpRequest(b) ==
    /\ call[b].st = "running"
    /\ \E o \in Outcomes : call' = [call EXCEPT ![b] = AfterRequest(call[b], o)]
    /\ UNCHANGED <<use_mock, req, pc, val, response, tasks, next_id>>
    /\ UNCHANGED auth_vars

----------------------------------------------------------------------------
(* categorize_task and estimate_time, given how _call_ai_api ended *)

\* Python truthiness of an Optional[str]
Truthy(v) == v # None /\ v[1] # <<>>

\* categorize_task without its last clause "except Exception": only the two
\* named failures are caught
categorize_task_named_only(description, r) ==
    IF r.st = "returned" /\ Truthy(r.value)
    THEN LET reply == lower(strip(r.value[1])) IN
         IF Contains(reply, <<"r", "a", "b", "o", "t">>) THEN Return(WORK)
         ELSE IF Contains(reply, <<"l", "i", "ch", "n">>) THEN Return(PERSONAL)
         ELSE IF Contains(reply, <<"z", "d", "o", "r", "o", "v">>)
         THEN Return(HEALTH)
         ELSE IF Contains(reply, <<"o", "b", "u", "ch">>) THEN Return(LEARNING)
         ELSE Return(OTHER_)
    ELSE IF r.st = "raised"
            /\ ~(\/ r.exc.type = "AIQuotaExceededError"
                 \/ r.exc.type = "AITimeoutError")
    THEN Raise(r.exc)
    ELSE Return(_get_mock_category(description))

\* r: the end of the _call_ai_api call, [st: "returned" | "raised", value, exc]
categorize_task(description, r) ==
    IF r.st = "returned" /\ Truthy(r.value)
    THEN LET reply == lower(strip(r.value[1])) IN
         IF Contains(reply, <<"r", "a", "b", "o", "t">>) THEN Return(WORK)
         ELSE IF Contains(reply, <<"l", "i", "ch", "n">>) THEN Return(PERSONAL)
         ELSE IF Contains(reply, <<"z", "d", "o", "r", "o", "v">>)
         THEN Return(HEALTH)
         ELSE IF Contains(reply, <<"o", "b", "u", "ch">>) THEN Return(LEARNING)
         ELSE Return(OTHER_)
    ELSE IF r.st = "raised"
            /\ ~(\/ r.exc.type = "AIQuotaExceededError"
                 \/ r.exc.type = "AITimeoutError"
                 \/ r.exc.type \in ExceptionTypes)
    THEN Raise(r.exc)
    ELSE Return(_get_mock_category(description))

\* estimate_time with "except Exception" narrowed to the service's own two
\* failures: an HTTPException or a RetryError leaves the function
estimate_time_reraise(description, r) ==
    IF r.st = "returned" /\ Truthy(r.value)
          /\ findall_digits(r.value[1]) # <<>>
    THEN LET minutes == ParseInt(findall_digits(r.value[1])[1]) IN
         Return(Max(1, Min(minutes, 1440)))
    ELSE IF r.st = "raised"
            /\ r.exc.type \notin {"AIQuotaExceededError", "AITimeoutError"}
    THEN Raise(r.exc)
    ELSE Return(_get_mock_estimated_time(description))

\* estimate_time that returns the number of the reply as it is
estimate_time_unclamped(description, r) ==
    IF r.st = "returned" /\ Truthy(r.value)
          /\ findall_digits(r.value[1]) # <<>>
    THEN Return(ParseInt(findall_digits(r.value[1])[1]))
    ELSE IF r.st = "raised" /\ ~(r.exc.type \in ExceptionTypes)
    THEN Raise(r.exc)
    ELSE Return(_get_mock_estimated_time(description))

estimate_time(description, r) ==
    IF r.st = "returned" /\ Truthy(r.value)
          /\ findall_digits(r.value[1]) # <<>>
    THEN LET minutes == ParseInt(findall_digits(r.value[1])[1]) IN
         Return(Max(1, Min(minutes, 1440)))
    ELSE IF r.st = "raised" /\ ~(r.exc.type \in ExceptionTypes)
    THEN Raise(r.exc)
    ELSE Return(_get_mock_estimated_time(description))

\* The service function of each branch in B is called on text: in mock mode
\* it returns the heuristic at once (lines 199-201, 244-246), otherwise it
\* enters _call_ai_api.  v: the values returned so far.  The record of an
\* earlier call is dropped when a new one begins.
StartedVal(B, text, v) ==
    [b \in Branches |->
       IF b \notin B THEN v[b]
       ELSE IF ~use_mock THEN NoVal
       ELSE IF b = "cat" THEN Return(_get_mock_category(text))
       ELSE Return(_get_mock_estimated_time(text))]
StartedCall(B) ==
    [b \in Branches |-> IF b \in B /\ ~use_mock THEN StartCall ELSE IdleCall]

NoVals == [b \in Branches |-> NoVal]
NoCalls == [b \in Branches |-> IdleCall]

----------------------------------------------------------------------------
(* Requests *)

\* the authenticated callers of the analysis requests (the caller plays no
\* part in an analysis)
Callers == {1}

Descriptions ==
    { \* Napisat' diplomnuyu rabotu
      <<"N", "a", "p", "i", "s", "a", "t", "soft", " ", "d", "i", "p", "l",
        "o", "m", "n", "u", "yu", " ", "r", "a", "b", "o", "t", "u">>,
      \* Kupit' produkty v magazine
      <<"K", "u", "p", "i", "t", "soft", " ", "p", "r", "o", "d", "u", "k",
        "t", "y", " ", "v", " ", "m", "a", "g", "a", "z", "i", "n", "e">> }

\* the descriptions of the tasks created: Srochno shodit' k vrachu
TaskDescriptions ==
    { <<"S", "r", "o", "ch", "n", "o", " ", "s", "h", "o", "d", "i", "t",
        "soft", " ", "k", " ", "v", "r", "a", "ch", "u">> }

\* srochno: shorter than the schema's min_length
ShortDescription == <<"s", "r", "o", "ch", "n", "o">>

Titles == { <<"Z", "v", "o", "n", "o", "k">> }    \* Zvonok

MaxTasks == 1

\* a request: the handler it is routed to, the authenticated caller, the
\* body of schemas.TaskBase with its defaults and the names of the fields
\* the body gave (pydantic's fields_set), the path parameter task_id, the
\* body of a PUT as task_data.dict(exclude_unset=True), the query of a list
\* or the form of a login, the bearer token, the minute it is handled at
NoReq ==
    [handler |-> "none", user |-> 0, title |-> None, description |-> None,
     status |-> NEW_, priority |-> MEDIUM, category |-> OTHER_,
     estimated_time |-> None, deadline |-> None,
     fields_set |-> {}, task_id |-> 0, update_data |-> <<>>, query |-> <<>>,
     credentials |-> None, at |-> 0]

NoResponse == [status_code |-> 0, body |-> <<>>]

\* the analysis of the description alone, whatever the handler
Text_description_only(r) == r.description[1]

\* the text the analysis of the request works on: analyze_task joins the
\* title, when there is one, and the description (line 278)
Text(r) ==
    IF r.handler = "analyze_task" /\ Truthy(r.title)
    THEN r.title[1] \o <<".", " ">> \o r.description[1]
    ELSE r.description[1]

\* ---- POST /tasks/ (create_task) ----

\* schemas.TaskCreate: the bodies that pass validation
\* the names of the fields a body gives
FieldsSet(d, c, e) ==
    {"title"} \cup (IF d = None THEN {} ELSE {"description"})
              \cup (IF c = None THEN {} ELSE {"category"})
              \cup (IF e = None THEN {} ELSE {"estimated_time"})

\* a body with the title t and, each given or not, the description d, the
\* category c and the estimated_time e; a field not given has its default
TaskBody(t, d, c, e) ==
    [NoReq EXCEPT !.handler = "create_task", !.title = Some(t),
                  !.description = d,
                  !.category = IF c = None THEN OTHER_ ELSE c[1],
                  !.estimated_time = e,
                  !.fields_set = FieldsSet(d, c, e)]

TaskCreates ==
    { TaskBody(t, d, c, e) :
        t \in Titles, d \in {None} \cup {Some(x) : x \in TaskDescriptions},
        c \in {None, Some(WORK)}, e \in {None, Some(90)} }

\* lines 13-18: a body of bodies arrives from a caller of U
CreateTaskBy(U, bodies) ==
    /\ pc = "idle"
    /\ Cardinality(tasks) < MaxTasks
    /\ \E u \in U, task_data \in bodies :
          req' = [task_data EXCEPT !.user = u]
    /\ pc' = "ct_category"
    /\ response' = NoResponse
    /\ val' = NoVals
    /\ call' = NoCalls
    /\ UNCHANGED <<use_mock, tasks, next_id>>
    /\ UNCHANGED auth_vars

CreateTask == CreateTaskBy(Callers, TaskCreates)

\* lines 22-24: categorize when no category was given and there is a text
CtCategory ==
    /\ pc = "ct_category"
    /\ IF req.category = OTHER_ /\ Truthy(req.description)
       THEN /\ val' = StartedVal({"cat"}, Text(req), val)
            /\ call' = StartedCall({"cat"})
            /\ pc' = "ct_category_await"
       ELSE /\ pc' = "ct_time"
            /\ UNCHANGED <<val, call>>
    /\ UNCHANGED <<use_mock, req, response, tasks, next_id>>
    /\ UNCHANGED auth_vars

\* the service function of branch b ends: it returns a value or raises
ServiceReturn(b) ==
    /\ call[b].st \in {"returned", "raised"}
    /\ val[b].st = "none"
    /\ val' = [val EXCEPT ![b] =
                 IF b = "cat" THEN categorize_task(Text(req), call[b])
                 ELSE estimate_time(Text(req), call[b])]
    /\ UNCHANGED <<use_mock, req, pc, call, response, tasks, next_id>>
    /\ UNCHANGED auth_vars

\* lines 25-28: the category is assigned; an exception is passed over
CtCategoryDone ==
    /\ pc = "ct_category_await"
    /\ val["cat"].st # "none"
    /\ req' = IF val["cat"].st = "return"
              THEN [req EXCEPT !.category = val["cat"].value[1]]
              ELSE req
    /\ pc' = "ct_time"
    /\ UNCHANGED <<use_mock, call, val, response, tasks, next_id>>
    /\ UNCHANGED auth_vars

\* lines 31-33
CtTime ==
    /\ pc = "ct_time"
    /\ IF req.estimated_time = None /\ Truthy(req.description)
       THEN /\ val' = StartedVal({"time"}, Text(req), val)
            /\ call' = StartedCall({"time"})
            /\ pc' = "ct_time_await"
       ELSE /\ pc' = "ct_commit"
            /\ UNCHANGED <<val, call>>
    /\ UNCHANGED <<use_mock, req, response, tasks, next_id>>
    /\ UNCHANGED auth_vars

\* lines 34-37
CtTimeDone ==
    /\ pc = "ct_time_await"
    /\ val["time"].st # "none"
    /\ req' = IF val["time"].st = "return"
              THEN [req EXCEPT !.estimated_time = val["time"].value]
              ELSE req
    /\ pc' = "ct_commit"
    /\ UNCHANGED <<use_mock, call, val, response, tasks, next_id>>
    /\ UNCHANGED auth_vars

\* schemas.Task(**task_data.dict(), owner_id=current_user.id)
TaskRow(id, r) ==
    [id |-> id, owner_id |-> r.user, title |-> r.title[1],
     description |-> r.description, status |-> r.status,
     priority |-> r.priority, category |-> r.category,
     estimated_time |-> r.estimated_time, deadline |-> r.deadline]

\* lines 40-49: the row is stored and returned with status 201
CtCommit ==
    /\ pc = "ct_commit"
    /\ tasks' = tasks \cup {TaskRow(next_id, req)}
    /\ next_id' = next_id + 1
    /\ response' = [status_code |-> 201, body |-> TaskRow(next_id, req)]
    /\ pc' = "idle"
    /\ UNCHANGED <<use_mock, req, call, val>>
    /\ UNCHANGED auth_vars

\* ---- POST /ai/categorize and POST /ai/estimate-time ----

\* schemas.AIAnalysisRequest bodies
AIAnalysisRequests ==
    { [NoReq EXCEPT !.description = Some(d), !.title = t] :
        d \in Descriptions \cup {ShortDescription}, t \in {None} }

\* the answer to a request the schema or the handler rejects, else NoResponse
Rejection(r, min_len) ==
    IF Len(r.description[1]) < 10
    THEN [status_code |-> 422, body |-> <<>>]
    ELSE IF ~Truthy(r.description) \/ Len(strip(r.description[1])) < min_len
    THEN [status_code |-> 400, body |-> <<>>]
    ELSE NoResponse

\* the endpoint of branch b: "cat" is /ai/categorize, "time" /ai/estimate-time
PostAIOf(b, requests) ==
    /\ pc = "idle"
    /\ \E u \in Callers, request \in requests :
         LET r == [request EXCEPT !.user = u,
                     !.handler = IF b = "cat" THEN "categorize_task"
                                 ELSE "estimate_time"]
         IN
         /\ req' = r
         /\ IF Rejection(r, 5) # NoResponse
            THEN /\ response' = Rejection(r, 5)
                 /\ pc' = "idle"
                 /\ val' = NoVals
                 /\ call' = NoCalls
            ELSE /\ response' = NoResponse
                 /\ val' = StartedVal({b}, Text(r), NoVals)
                 /\ call' = StartedCall({b})
                 /\ pc' = "ep_await"
    /\ UNCHANGED <<use_mock, tasks, next_id>>
    /\ UNCHANGED auth_vars

PostAI(b) == PostAIOf(b, AIAnalysisRequests)

\* the framework's answer to an exception leaving a handler
ErrorResponse(e) ==
    IF e.type = "HTTPException"
    THEN [status_code |-> e.status_code, body |-> e.detail]
    ELSE [status_code |-> 500, body |-> <<>>]

\* the endpoint returns what the service function returned
EpReturn(b) ==
    /\ pc = "ep_await"
    /\ req.handler = (IF b = "cat" THEN "categorize_task" ELSE "estimate_time")
    /\ val[b].st # "none"
    /\ response' = IF val[b].st = "return"
                   THEN [status_code |-> 200, body |-> val[b].value[1]]
                   ELSE ErrorResponse(val[b].exc)
    /\ pc' = "idle"
    /\ UNCHANGED <<use_mock, req, call, val, tasks, next_id>>
    /\ UNCHANGED auth_vars

\* ---- POST /ai/analyze (the endpoint and AIService.analyze_task) ----

\* Srochnyj otchet
AnalyzeTitle ==
    <<"S", "r", "o", "ch", "n", "y", "j", " ", "o", "t", "ch", "e", "t">>

AnalyzeRequests ==
    { [NoReq EXCEPT !.handler = "analyze_task", !.description = Some(d),
                    !.title = t] :
        d \in { \* Kupit' produkty v magazine
                <<"K", "u", "p", "i", "t", "soft", " ", "p", "r", "o", "d",
                  "u", "k", "t", "y", " ", "v", " ", "m", "a", "g", "a", "z",
                  "i", "n", "e">>,
                ShortDescription },
        t \in {None, Some(AnalyzeTitle)} }

\* ai.py lines 66-75 and ai_service.py lines 278-282: both coroutines start
PostAnalyzeOf(requests) ==
    /\ pc = "idle"
    /\ \E u \in Callers, request \in requests :
         LET r == [request EXCEPT !.user = u, !.handler = "analyze_task"] IN
         /\ req' = r
         /\ IF Rejection(r, 10) # NoResponse
            THEN /\ response' = Rejection(r, 10)
                 /\ pc' = "idle"
                 /\ val' = NoVals
                 /\ call' = NoCalls
            ELSE /\ response' = NoResponse
                 /\ val' = StartedVal(Branches, Text(r), NoVals)
                 /\ call' = StartedCall(Branches)
                 /\ pc' = "an_gather"
    /\ UNCHANGED <<use_mock, tasks, next_id>>
    /\ UNCHANGED auth_vars

PostAnalyze == PostAnalyzeOf(AnalyzeRequests)

\* descriptions with and without the words of _generate_subtasks
SubtaskDescriptions ==
    { \* Napisat' diplomnuyu rabotu
      <<"N", "a", "p", "i", "s", "a", "t", "soft", " ", "d", "i", "p", "l",
        "o", "m", "n", "u", "yu", " ", "r", "a", "b", "o", "t", "u">>,
      \* Sozdat' prezentaciyu
      <<"S", "o", "z", "d", "a", "t", "soft", " ", "p", "r", "e", "z", "e",
        "n", "t", "a", "c", "i", "yu">>,
      \* NAPISAT' OTCHET
      <<"N", "A", "P", "I", "S", "A", "T", "SOFT", " ", "O", "T", "CH", "E",
        "T">>,
      \* Vstrecha s klientom
      <<"V", "s", "t", "r", "e", "ch", "a", " ", "s", " ", "k", "l", "i",
        "e", "n", "t", "o", "m">>,
      \* Vstrecha: napisat' plan
      <<"V", "s", "t", "r", "e", "ch", "a", ":", " ", "n", "a", "p", "i",
        "s", "a", "t", "soft", " ", "p", "l", "a", "n">>,
      \* Plan vstrechi s klientom
      <<"P", "l", "a", "n", " ", "v", "s", "t", "r", "e", "ch", "i", " ",
        "s", " ", "k", "l", "i", "e", "n", "t", "o", "m">>,
      \* Kupit' produkty v magazine
      <<"K", "u", "p", "i", "t", "soft", " ", "p", "r", "o", "d", "u", "k",
        "t", "y", " ", "v", " ", "m", "a", "g", "a", "z", "i", "n", "e">> }

\* the longest description of the length checks
MaxDescription == 12

\* n times the character c
Repeat(c, n) == [i \in 1..n |-> c]

\* descriptions of every length up to MaxDescription, and descriptions of
\* 10 or 11 characters some of which are blanks at an end
LengthDescriptions ==
    { Repeat("a", n) : n \in 0..MaxDescription }
    \cup { Repeat("a", n) \o Repeat(" ", 10 - n) : n \in {0, 4, 5, 9} }
    \cup { <<" ">> \o Repeat("a", 10) }

\* schemas.AIAnalysisRequest bodies: task_description, task_title or none
EndpointRequests ==
    { [NoReq EXCEPT !.description = Some(d), !.title = t] :
        d \in SubtaskDescriptions,
        t \in {None} \cup {Some(x) : x \in Titles \cup {AnalyzeTitle}} }
    \cup { [NoReq EXCEPT !.description = Some(d)] : d \in LengthDescriptions }

\* asyncio.gather(..., return_exceptions=True) has both results
GatherDone(v) == \A b \in Branches : v[b].st # "none"

\* lines 292-316: v holds what gather returned for the two branches
AnalysisResult(full_text, v) ==
    LET category == IF v["cat"].st = "raise"
                    THEN _get_mock_category(full_text)
                    ELSE v["cat"].value[1]
        estimated_time == IF v["time"].st = "raise"
                          THEN _get_mock_estimated_time(full_text)
                          ELSE v["time"].value[1]
        subtasks == _generate_subtasks(full_text)
    IN
    [category |-> category,
     estimated_time |-> estimated_time,
     subtasks |-> SubSeq(subtasks, 1, Min(3, Len(subtasks))),
     suggested_priority |-> _determine_priority(estimated_time),
     tips |-> <<[tip |-> "minutes", minutes |-> estimated_time, category |-> OTHER_],
                [tip |-> "category", minutes |-> 0, category |-> category],
                [tip |-> "start with the most important", minutes |-> 0,
                 category |-> OTHER_]>>]

AnalyzeFinish ==
    /\ pc = "an_gather"
    /\ GatherDone(val)
    /\ response' = [status_code |-> 200, body |-> AnalysisResult(Text(req), val)]
    /\ pc' = "idle"
    /\ UNCHANGED <<use_mock, req, call, val, tasks, next_id>>
    /\ UNCHANGED auth_vars

\* ---- GET /tasks/, GET, PUT and DELETE /tasks/{task_id} ----

\* the ids of the registered users who send task requests
Users == {1, 2}

\* Novoe nazvanie
NewTitle == <<"N", "o", "v", "o", "e", " ", "n", "a", "z", "v", "a", "n", "i", "e">>

\* the task ids a request names: rows that may exist and one that never does
TaskIds == 1 .. (MaxTasks + 1)

\* the query without the owner filter: any user's row of that id
FindTask_any_owner(rows, task_id, user_id) ==
    { t \in rows : t.id = task_id }

\* db.query(Task).filter(Task.id == task_id, Task.owner_id == user_id): the
\* rows .first() chooses from (ids are a primary key: at most one)
FindTask(rows, task_id, user_id) ==
    { t \in rows : t.id = task_id /\ t.owner_id = user_id }

\* the rows of S in the order of their primary key, as a sequence
RECURSIVE ById(_)
ById(S) ==
    IF S = {} THEN <<>>
    ELSE LET t == CHOOSE x \in S : \A y \in S : x.id <= y.id
         IN <<t>> \o ById(S \ {t})

\* Query(skip, limit, status, category) of read_tasks
Queries ==
    { [skip |-> 0, limit |-> 100, status |-> None, category |-> None],
      [skip |-> 1, limit |-> 100, status |-> None, category |-> None],
      [skip |-> 0, limit |-> 1, status |-> Some(DONE), category |-> None],
      [skip |-> 0, limit |-> 100, status |-> None, category |-> Some(HEALTH)] }

\* lines 63-72: filter by owner, then by status and category when given,
\* then offset and limit
read_tasks(rows, user_id, q) ==
    LET found == ById({ t \in rows :
                          /\ t.owner_id = user_id
                          /\ q.status # None => t.status = q.status[1]
                          /\ q.category # None => t.category = q.category[1] })
    IN SubSeq(found, q.skip + 1, Min(Len(found), q.skip + q.limit))

ReadTasks ==
    /\ pc = "idle"
    /\ \E u \in Users, q \in Queries :
         /\ req' = [NoReq EXCEPT !.handler = "read_tasks", !.user = u, !.query = q]
         /\ response' = [status_code |-> 200, body |-> read_tasks(tasks, u, q)]
    /\ UNCHANGED <<use_mock, pc, call, val, tasks, next_id>>
    /\ UNCHANGED auth_vars

\* lines 83-91
ReadTask ==
    /\ pc = "idle"
    /\ \E u \in Users, task_id \in TaskIds :
         LET task == FindTask(tasks, task_id, u) IN
         /\ req' = [NoReq EXCEPT !.handler = "read_task", !.user = u,
                                 !.task_id = task_id]
         /\ response' = IF task = {}
                        THEN ErrorResponse(HTTPException(404, "Task not found"))
                        ELSE [status_code |-> 200, body |-> CHOOSE t \in task : TRUE]
    /\ UNCHANGED <<use_mock, pc, call, val, tasks, next_id>>
    /\ UNCHANGED auth_vars

\* the columns declared nullable=False that a PUT can set
NotNullColumns == {"title", "status", "priority", "category"}

\* schemas.TaskUpdate bodies as task_data.dict(exclude_unset=True): only the
\* fields the body gives, each an Optional value (null is a value)
TaskUpdates ==
    { <<>>,
      [title |-> Some(NewTitle), status |-> Some(DONE)],
      [category |-> Some(HEALTH), estimated_time |-> Some(45)],
      [description |-> None, estimated_time |-> None],
      [title |-> None] }

\* lines 113-114: setattr(task, field, value) for every item of update_data
setattr_items(task, update_data) ==
    [f \in DOMAIN task |->
       IF f \notin DOMAIN update_data THEN task[f]
       ELSE IF f \in NotNullColumns /\ update_data[f] # None
       THEN update_data[f][1]
       ELSE update_data[f]]

\* db.commit() of a row: NOT NULL is violated by a null in such a column
IntegrityError(update_data) ==
    \E f \in DOMAIN update_data \cap NotNullColumns : update_data[f] = None

\* lines 103-119
UpdateTask ==
    /\ pc = "idle"
    /\ \E u \in Users, task_id \in TaskIds, update_data \in TaskUpdates :
         LET found == FindTask(tasks, task_id, u)
             task == CHOOSE t \in found : TRUE
         IN
         /\ req' = [NoReq EXCEPT !.handler = "update_task", !.user = u,
                                 !.task_id = task_id,
                                 !.update_data = update_data]
         /\ IF found = {}
            THEN /\ response' = ErrorResponse(HTTPException(404, "Task not found"))
                 /\ tasks' = tasks
            ELSE IF IntegrityError(update_data)
            THEN /\ response' = ErrorResponse(Exc("IntegrityError"))
                 /\ tasks' = tasks
            ELSE /\ response' = [status_code |-> 200,
                                 body |-> setattr_items(task, update_data)]
                 /\ tasks' = (tasks \ {task}) \cup {setattr_items(task, update_data)}
    /\ UNCHANGED <<use_mock, pc, call, val, next_id>>
    /\ UNCHANGED auth_vars

\* the next INTEGER PRIMARY KEY of the table: one more than the largest
NextId(rows) ==
    IF rows = {} THEN 1
    ELSE (CHOOSE i \in { t.id : t \in rows } : \A t \in rows : t.id <= i) + 1

\* lines 130-141
DeleteTask ==
    /\ pc = "idle"
    /\ \E u \in Users, task_id \in TaskIds :
         LET found == FindTask(tasks, task_id, u) IN
         /\ req' = [NoReq EXCEPT !.handler = "delete_task", !.user = u,
                                 !.task_id = task_id]
         /\ IF found = {}
            THEN /\ response' = ErrorResponse(HTTPException(404, "Task not found"))
                 /\ tasks' = tasks
            ELSE /\ response' = [status_code |-> 204, body |-> <<>>]
                 /\ tasks' = tasks \ found
         /\ next_id' = NextId(tasks')
    /\ UNCHANGED <<use_mock, pc, call, val>>
    /\ UNCHANGED auth_vars

\* the bodies of POST /tasks/ of the task requests: the title alone, with a
\* description, with a description and the default category given
\* explicitly, with a category and no description, with every field
TaskBodies ==
    UNION { { TaskBody(t, None, None, None),
              TaskBody(t, Some(d), None, None),
              TaskBody(t, Some(d), Some(OTHER_), None),
              TaskBody(t, None, Some(WORK), None),
              TaskBody(t, Some(d), Some(WORK), Some(90)) } :
            t \in Titles, d \in TaskDescriptions }

CreateTaskOfUser == CreateTaskBy(Users, TaskBodies)

\* ---- the heuristics on their own (mock mode) ----

\* words of task descriptions: Otchet, pokupki, vrach, kurs, trening,
\* moloko, srochno, chas, lekciya, poldnya, "4 chasa", den', slozhnyj,
\* proekt, RABOTA
Words ==
    { <<"O", "t", "ch", "e", "t">>,
      <<"p", "o", "k", "u", "p", "k", "i">>,
      <<"v", "r", "a", "ch">>,
      <<"k", "u", "r", "s">>,
      <<"t", "r", "e", "n", "i", "n", "g">>,
      <<"m", "o", "l", "o", "k", "o">>,
      <<"s", "r", "o", "ch", "n", "o">>,
      <<"ch", "a", "s">>,
      <<"l", "e", "k", "c", "i", "ya">>,
      <<"p", "o", "l", "d", "n", "ya">>,
      <<"4", " ", "ch", "a", "s", "a">>,
      <<"d", "e", "n", "soft">>,
      <<"s", "l", "o", "zh", "n", "y", "j">>,
      <<"p", "r", "o", "e", "k", "t">>,
      <<"R", "A", "B", "O", "T", "A">> }

\* the texts analysed: the empty text, one word, two words
HeuristicTexts ==
    {<<>>} \cup Words \cup { a \o <<" ">> \o b : a, b \in Words }

\* categorize_task(text) in mock mode, lines 199-201
CategorizeText ==
    /\ pc = "idle"
    /\ use_mock
    /\ val["cat"].st = "none"
    /\ val' = StartedVal({"cat"}, req.description[1], val)
    /\ UNCHANGED <<use_mock, req, pc, call, response, tasks, next_id>>
    /\ UNCHANGED auth_vars

\* estimate_time(text) in mock mode, lines 244-246
EstimateText ==
    /\ pc = "idle"
    /\ use_mock
    /\ val["time"].st = "none"
    /\ val' = StartedVal({"time"}, req.description[1], val)
    /\ UNCHANGED <<use_mock, req, pc, call, response, tasks, next_id>>
    /\ UNCHANGED auth_vars

----------------------------------------------------------------------------
(* Authentication (app/core/security.py, app/routers/auth.py).  The clock  *)
(* counts minutes; a token's exp and the clock are compared as whole       *)
(* numbers.                                                                *)

SECRET_KEY == "your-secret-key-change-in-production-12345"
ACCESS_TOKEN_EXPIRE_MINUTES == 30

\* the last minute of the clock
MaxNow == 32

\* bcrypt: a hash verifies the password it was made from and no other
get_password_hash(password) == <<"bcrypt", password>>
verify_password(plain_password, hashed_password) ==
    hashed_password = get_password_hash(plain_password)

\* A JWT: whether it parses, the key that signed it, its claims sub and exp.
\* security.py lines 46-48: exp = utcnow + the configured minutes
create_access_token(subject, utcnow) ==
    [wellformed |-> TRUE, key |-> SECRET_KEY, sub |-> Some(subject),
     exp |-> Some(utcnow + ACCESS_TOKEN_EXPIRE_MINUTES)]

\* jwt.decode with the expiry not verified (options verify_exp off)
jwt_decode_ignores_exp(tok, key, utcnow) ==
    IF ~tok.wellformed THEN None
    ELSE IF tok.key # key THEN None
    ELSE Some([sub |-> tok.sub, exp |-> tok.exp])

\* jwt.decode(token, key): the payload, or None where it raises JWTError (a
\* token that does not parse, a signature of another key, exp < now)
jwt_decode(tok, key, utcnow) ==
    IF ~tok.wellformed THEN None
    ELSE IF tok.key # key THEN None
    ELSE IF tok.exp # None /\ tok.exp[1] < utcnow THEN None
    ELSE Some([sub |-> tok.sub, exp |-> tok.exp])

\* auth.py lines 20-24
credentials_exception ==
    [type |-> "HTTPException", status_code |-> 401,
     detail |-> "Could not validate credentials",
     headers |-> "WWW-Authenticate: Bearer"]

\* get_current_user that tells the client when the subject names no user
get_current_user_reports_missing_user(credentials, utcnow, rows) ==
    LET payload == jwt_decode(credentials, SECRET_KEY, utcnow) IN
    IF payload = None THEN Raise(credentials_exception)
    ELSE IF payload[1].sub = None THEN Raise(credentials_exception)
    ELSE LET user == { u \in rows : u.username = payload[1].sub[1] } IN
         IF user = {}
         THEN Raise([credentials_exception EXCEPT !.status_code = 404,
                                                  !.detail = "User not found"])
         ELSE Return(CHOOSE u \in user : TRUE)

\* auth.py lines 26-41
get_current_user(credentials, utcnow, rows) ==
    LET payload == jwt_decode(credentials, SECRET_KEY, utcnow) IN
    IF payload = None THEN Raise(credentials_exception)
    ELSE IF payload[1].sub = None THEN Raise(credentials_exception)
    ELSE LET user == { u \in rows : u.username = payload[1].sub[1] } IN
         IF user = {} THEN Raise(credentials_exception)
         ELSE Return(CHOOSE u \in user : TRUE)

\* the answer to an HTTPException with its headers
AuthErrorResponse(e) ==
    [status_code |-> e.status_code, body |-> e.detail, headers |-> e.headers]

\* schemas.UserCreate bodies
Emails == {"alice@example.com", "bob@example.com"}
Usernames == {"alice", "bob"}
Password == "password123"
UserCreates == [email : Emails, username : Usernames, password : {Password}]

\* schemas.User(...) of register, lines 67-72, with the column defaults
UserRow(id, user_data) ==
    [id |-> id, email |-> user_data.email, username |-> user_data.username,
     full_name |-> None,
     hashed_password |-> get_password_hash(user_data.password),
     is_active |-> TRUE]

\* the users registered before the first login
RegisteredUsers ==
    { UserRow(1, [email |-> "alice@example.com", username |-> "alice",
                  password |-> Password]),
      UserRow(2, [email |-> "bob@example.com", username |-> "bob",
                  password |-> Password]) }

\* POST /auth/login, lines 85-101; the client keeps the token it is given
Login ==
    /\ pc = "idle"
    /\ token = None
    /\ \E username \in Usernames \cup {"carol"},
          password \in {Password, "guess"} :
         LET user == { u \in users : u.username = username } IN
         /\ req' = [NoReq EXCEPT !.handler = "login", !.at = now,
                      !.query = [username |-> username, password |-> password]]
         /\ IF \/ user = {}
               \/ ~verify_password(password,
                                   (CHOOSE u \in user : TRUE).hashed_password)
            THEN /\ response' =
                      [status_code |-> 401,
                       body |-> "Incorrect username or password",
                       headers |-> "WWW-Authenticate: Bearer"]
                 /\ token' = token
            ELSE IF ~(CHOOSE u \in user : TRUE).is_active
            THEN /\ response' = [status_code |-> 400, body |-> "Inactive user"]
                 /\ token' = token
            ELSE LET access_token ==
                       create_access_token((CHOOSE u \in user : TRUE).username, now)
                 IN /\ response' = [status_code |-> 200, body |-> access_token]
                    /\ token' = Some(access_token)
    /\ UNCHANGED <<use_mock, pc, call, val, tasks, next_id, users, now, reg>>

\* tokens a client can present that no login gave it: one that does not
\* parse, one signed with another key, and tokens signed with the server's
\* key that carry no subject, the name of no user, a user's name in another
\* case, no expiry
OtherTokens ==
    { [wellformed |-> FALSE, key |-> "", sub |-> None, exp |-> None],
      [wellformed |-> TRUE, key |-> "another key", sub |-> Some("alice"),
       exp |-> Some(MaxNow + 1)],
      [wellformed |-> TRUE, key |-> SECRET_KEY, sub |-> None,
       exp |-> Some(MaxNow + 1)],
      [wellformed |-> TRUE, key |-> SECRET_KEY, sub |-> Some("carol"),
       exp |-> Some(MaxNow + 1)],
      [wellformed |-> TRUE, key |-> SECRET_KEY, sub |-> Some("Alice"),
       exp |-> Some(MaxNow + 1)],
      [wellformed |-> TRUE, key |-> SECRET_KEY, sub |-> Some("bob"),
       exp |-> None] }

\* GET /auth/me, lines 104-107: get_current_user and its answer
ReadUsersMe ==
    /\ pc = "idle"
    /\ \E credentials \in OtherTokens \cup (IF token = None THEN {} ELSE {token[1]}) :
         LET r == get_current_user(credentials, now, users) IN
         /\ req' = [NoReq EXCEPT !.handler = "read_users_me", !.at = now,
                                 !.credentials = Some(credentials)]
         /\ response' = IF r.st = "return"
                        THEN [status_code |-> 200, body |-> r.value[1]]
                        ELSE AuthErrorResponse(r.exc)
    /\ UNCHANGED <<use_mock, pc, call, val, tasks, next_id, users, now, token, reg>>

\* a minute passes
Tick ==
    /\ now < MaxNow
    /\ now' = now + 1
    /\ UNCHANGED <<use_mock, req, pc, call, val, response, tasks, next_id,
                   users, token, reg>>

\* ---- POST /auth/register: handlers run in worker threads ----

Workers == {1, 2}

\* a worker's request: where the handler is, its body, its answer
IdleReg == [pc |-> "idle", user_data |-> None, response |-> NoResponse]
NoRegs == [w \in Workers |-> IdleReg]

\* users columns declared without unique=True
UniqueViolated_no_constraint(rows, row) == FALSE

\* schemas.User lines 37-38, unique=True on email and username: whether the
\* INSERT of row breaks a unique index
UniqueViolated(rows, row) ==
    \E u \in rows : u.email = row.email \/ u.username = row.username

\* lines 45-54: a request arrives and the email query runs
RegisterCheckEmail(w) ==
    /\ reg[w].pc = "idle"
    /\ \E user_data \in UserCreates :
         IF \E u \in users : u.email = user_data.email
         THEN reg' = [reg EXCEPT ![w] =
                        [pc |-> "idle", user_data |-> Some(user_data),
                         response |-> ErrorResponse(
                            HTTPException(400, "Email already registered"))]]
         ELSE reg' = [reg EXCEPT ![w] =
                        [pc |-> "check_username", user_data |-> Some(user_data),
                         response |-> NoResponse]]
    /\ UNCHANGED <<use_mock, req, pc, call, val, response, tasks, next_id,
                   users, now, token>>

\* lines 57-62: the username query
RegisterCheckUsername(w) ==
    /\ reg[w].pc = "check_username"
    /\ IF \E u \in users : u.username = reg[w].user_data[1].username
       THEN reg' = [reg EXCEPT ![w].pc = "idle",
                               ![w].response = ErrorResponse(
                                  HTTPException(400, "Username already taken"))]
       ELSE reg' = [reg EXCEPT ![w].pc = "insert"]
    /\ UNCHANGED <<use_mock, req, pc, call, val, response, tasks, next_id,
                   users, now, token>>

\* lines 65-78: the row is inserted and committed; the commit raises
\* IntegrityError when a unique index is broken
RegisterCommit(w) ==
    /\ reg[w].pc = "insert"
    /\ LET db_user == UserRow(NextId(users), reg[w].user_data[1]) IN
       IF UniqueViolated(users, db_user)
       THEN /\ reg' = [reg EXCEPT ![w].pc = "idle",
                         ![w].response = ErrorResponse(Exc("IntegrityError"))]
            /\ users' = users
       ELSE /\ reg' = [reg EXCEPT ![w].pc = "idle",
                         ![w].response = [status_code |-> 200, body |-> db_user]]
            /\ users' = users \cup {db_user}
    /\ UNCHANGED <<use_mock, req, pc, call, val, response, tasks, next_id,
                   now, token>>

----------------------------------------------------------------------------
(* The service with the task-creation handler and the two single-purpose  *)
(* analysis endpoints: one request at a time.                              *)

Init ==
    /\ use_mock \in BOOLEAN
    /\ req = NoReq
    /\ pc = "idle"
    /\ call = NoCalls
    /\ val = NoVals
    /\ response = NoResponse
    /\ tasks = {}
    /\ next_id = 1
    /\ users = {}
    /\ now = 0
    /\ token = None
    /\ reg = NoRegs

Next ==
    \/ CreateTask
    \/ CtCategory
    \/ CtCategoryDone
    \/ CtTime
    \/ CtTimeDone
    \/ CtCommit
    \/ \E b \in Branches : PostAI(b)
    \/ \E b \in Branches : EpReturn(b)
    \/ \E b \in Branches : HttpRequest(b)
    \/ \E b \in Branches : ServiceReturn(b)

Spec == Init /\ [][Next]_vars

----------------------------------------------------------------------------
(* POST /ai/analyze alone: the two branches of analyze_task interleave.    *)

NextAnalyze ==
    \/ PostAnalyze
    \/ \E b \in Branches : HttpRequest(b)
    \/ \E b \in Branches : ServiceReturn(b)
    \/ AnalyzeFinish

SpecAnalyze == Init /\ [][NextAnalyze]_vars

----------------------------------------------------------------------------
(* The task requests of several users, the analysis in mock mode (no API   *)
(* key configured).                                                        *)

InitTasks ==
    /\ Init
    /\ use_mock = TRUE

NextTasks ==
    \/ CreateTaskOfUser
    \/ CtCategory
    \/ CtCategoryDone
    \/ CtTime
    \/ CtTimeDone
    \/ CtCommit
    \/ ReadTasks
    \/ ReadTask
    \/ UpdateTask
    \/ DeleteTask

SpecTasks == InitTasks /\ [][NextTasks]_vars

----------------------------------------------------------------------------
(* Registration: two worker threads handle register requests.              *)

NextRegister ==
    \/ \E w \in Workers : RegisterCheckEmail(w)
    \/ \E w \in Workers : RegisterCheckUsername(w)
    \/ \E w \in Workers : RegisterCommit(w)

SpecRegister == Init /\ [][NextRegister]_vars

----------------------------------------------------------------------------
(* Login and authenticated requests of registered users as time passes.    *)

InitAuth ==
    /\ use_mock = TRUE
    /\ req = NoReq
    /\ pc = "idle"
    /\ call = NoCalls
    /\ val = NoVals
    /\ response = NoResponse
    /\ tasks = {}
    /\ next_id = 1
    /\ users = RegisteredUsers
    /\ now = 0
    /\ token = None
    /\ reg = NoRegs

NextAuth ==
    \/ Login
    \/ ReadUsersMe
    \/ Tick

SpecAuth == InitAuth /\ [][NextAuth]_vars

----------------------------------------------------------------------------
(* The invocations of _call_ai_api by /ai/categorize and /ai/estimate-time, *)
(* when every POST to the upstream ends: client.post returns a response    *)
(* or, after self.timeout seconds, raises httpx.TimeoutException, and      *)
(* every asyncio.sleep of the loop and of the decorator is finite.         *)

NextCalls ==
    \/ \E b \in Branches : PostAI(b)
    \/ \E b \in Branches : EpReturn(b)
    \/ \E b \in Branches : HttpRequest(b)
    \/ \E b \in Branches : ServiceReturn(b)

FairCalls == \A b \in Branches : WF_vars(HttpRequest(b))

SpecCalls == Init /\ [][NextCalls]_vars /\ FairCalls

----------------------------------------------------------------------------
(* The three analysis endpoints in mock mode, the mode AIService starts in. *)

InitEndpoints ==
    /\ use_mock = TRUE
    /\ req = NoReq
    /\ pc = "idle"
    /\ call = NoCalls
    /\ val = NoVals
    /\ response = NoResponse
    /\ tasks = {}
    /\ next_id = 1
    /\ users = {}
    /\ now = 0
    /\ token = None
    /\ reg = NoRegs

NextEndpoints ==
    \/ \E b \in Branches : PostAIOf(b, EndpointRequests)
    \/ \E b \in Branches : EpReturn(b)
    \/ PostAnalyzeOf(EndpointRequests)
    \/ AnalyzeFinish

SpecEndpoints == InitEndpoints /\ [][NextEndpoints]_vars

----------------------------------------------------------------------------
(* The two heuristics applied to a text, in either order.                  *)

InitHeuristics ==
    /\ use_mock = TRUE
    /\ req \in { [NoReq EXCEPT !.description = Some(t)] : t \in HeuristicTexts }
    /\ pc = "idle"
    /\ call = NoCalls
    /\ val = NoVals
    /\ response = NoResponse
    /\ tasks = {}
    /\ next_id = 1
    /\ users = {}
    /\ now = 0
    /\ token = None
    /\ reg = NoRegs

NextHeuristics ==
    \/ CategorizeText
    \/ EstimateText

SpecHeuristics == InitHeuristics /\ [][NextHeuristics]_vars

----------------------------------------------------------------------------
(* Properties *)

Live == ~use_mock
Ended(c) == c.st \in {"returned", "raised"}

\* the call failed, or gave nothing branch b can use: no reply, an empty
\* reply, or (for the duration) a reply without a digit
Unusable(b, c) ==
    \/ c.st = "raised"
    \/ /\ c.st = "returned"
       /\ \/ c.value = None
          \/ c.value[1] = <<>>
          \/ b = "time" /\ \A i \in 1..Len(c.value[1]) :
                              c.value[1][i] \notin DOMAIN Digits

\* the descriptions the requests of the handlers carry
KnownTexts == Descriptions \cup TaskDescriptions

\* the two heuristics on those descriptions, computed once
HeuristicTable ==
    [b \in Branches |->
       [t \in KnownTexts |->
          IF b = "cat" THEN _get_mock_category(t)
          ELSE _get_mock_estimated_time(t)]]

Heuristic(b, text) ==
    IF text \in KnownTexts THEN HeuristicTable[b][text]
    ELSE IF b = "cat" THEN _get_mock_category(text)
    ELSE _get_mock_estimated_time(text)

\* C1: in live mode categorize_task and estimate_time never raise, whatever
\* the upstream did; when _call_ai_api failed or gave no usable reply they
\* return the heuristic result for the same text; and create_task always
\* stores the task, with what the service functions returned, and answers 201.
C1_AnalysisNeverPreventsCreation ==
    Live =>
      /\ \A b \in Branches : val[b].st # "raise"
      /\ \A b \in Branches :
           Ended(call[b]) /\ val[b].st # "none" /\ Unusable(b, call[b])
             => val[b] = Return(Heuristic(b, req.description[1]))
      /\ req.handler = "create_task" =>
           /\ response.status_code \in {0, 201}
           /\ pc \in {"ct_time", "ct_time_await", "ct_commit", "idle"}
                /\ val["cat"].st # "none"
                => req.category = val["cat"].value[1]
           /\ pc \in {"ct_commit", "idle"} /\ val["time"].st # "none"
                => req.estimated_time = val["time"].value
           /\ pc = "idle" =>
                /\ response.status_code = 201
                /\ response.body \in tasks
                /\ response.body = TaskRow(response.body.id, req)

\* the upstream failed for good on the duration, in live mode, and the task
\* is stored with the heuristic category and duration of its description
C1_Witness ==
    /\ Live
    /\ req.handler = "create_task"
    /\ pc = "idle"
    /\ call["time"].st = "raised"
    /\ response.status_code = 201
    /\ response.body \in tasks
    /\ response.body.category = HEALTH
    /\ response.body.estimated_time = Some(15)


\* C2: one invocation of _call_ai_api with its decorator sends at most 3
\* requests in total.
C2_AtMostThreeRequests ==
    \A b \in Branches : call[b].requests <= 3

\* C3: a 402 reply ends the call at once, with no wait and no further
\* request: AIQuotaExceededError reaches the caller of _call_ai_api.
C3_QuotaEndsTheCall ==
    \A b \in Branches :
      call[b].last.status_code = 402 =>
        /\ call[b].st = "raised"
        /\ call[b].exc.type = "AIQuotaExceededError"
        /\ call[b].slept = 0

IsClientError(o) ==
    /\ o.kind = "response"
    /\ o.status_code \in 400..499
    /\ o.status_code \notin {402, 429}

\* C4: a 4xx reply other than 402 and 429 ends the call on that attempt:
\* no sleep, no further request, and an HTTPException with status 502.
C4_ClientErrorRaises502 ==
    \A b \in Branches :
      IsClientError(call[b].last) =>
        /\ call[b].st = "raised"
        /\ call[b].exc =
             HTTPException(502, <<"AI service error", call[b].last.status_code>>)
        /\ call[b].slept = 0

\* a 404 on the second attempt, after a retried failure, ended the call
C4_Witness ==
    \E b \in Branches :
      /\ call[b].last.status_code = 404
      /\ call[b].last_attempt = 2
      /\ call[b].requests = 2
      /\ call[b].st = "raised"
      /\ call[b].exc.status_code = 502

\* C5: a 429 on attempt n < 3 makes the call sleep 2^n seconds and go on to
\* attempt n + 1 of the same invocation, where the next request is sent; a
\* 429 on attempt 3 ends the call; so at most 3 replies in a row are 429.
C5_RateLimitRetry ==
    \A b \in Branches :
      /\ call[b].last.status_code = 429 =>
           IF call[b].last_attempt < 3
           THEN /\ call[b].st = "running"
                /\ call[b].slept = 2 ^ call[b].last_attempt
                /\ call[b].attempt = call[b].last_attempt + 1
                /\ call[b].attempt <= 3
           ELSE call[b].st = "raised"
      /\ call[b].run429 <= 3

\* the second 429 in a row, on attempt 2: 4 seconds slept, attempt 3 is next
C5_Witness ==
    \E b \in Branches :
      /\ call[b].last.status_code = 429
      /\ call[b].run429 = 2
      /\ call[b].last_attempt = 2
      /\ call[b].slept = 4
      /\ call[b].st = "running"

\* the request was answered by a timeout or a 5xx reply
TimeoutOr5xx(o) ==
    \/ o.kind = "timeout"
    \/ o.kind = "response" /\ o.status_code >= 500

\* C6: the time slept between a request that ended in a timeout or a 5xx
\* reply and the next request is 2 seconds after the first request and
\* doubles after each later one, and is never more than 10 seconds.
C6_BackoffTwoDoublingCapped ==
    \A b \in Branches :
      call[b].st = "running" /\ TimeoutOr5xx(call[b].last) =>
        /\ call[b].slept <= 10
        /\ call[b].slept = Min(2 ^ call[b].requests, 10)

\* C7: when the attempts are used up (the last one failed in a way that is
\* retried: not a 402, not a plain client error), the failure that reaches
\* the caller is AITimeoutError (after timeouts) or the 500 "AI service
\* unavailable".
C7_ExhaustedFailureKinds ==
    \A b \in Branches :
      /\ call[b].st = "raised"
      /\ call[b].last_attempt = 3
      /\ ~IsClientError(call[b].last)
      /\ call[b].last.status_code # 402
      =>
        /\ \/ call[b].exc.type = "AITimeoutError"
           \/ call[b].exc = HTTPException(500, <<"AI service unavailable">>)
        /\ call[b].last.kind = "timeout" => call[b].exc.type = "AITimeoutError"

\* the value the wrapper is to return for a decoded 2xx body
Extracted(data) ==
    IF data.has_choices /\ data.choices # <<>>
       /\ data.choices[1].message # None
    THEN Some(strip(data.choices[1].message[1]))
    ELSE IF data.has_choices /\ data.choices # <<>>
            /\ Truthy(data.choices[1].text)
    THEN Some(strip(data.choices[1].text[1]))
    ELSE None

\* C8: a 2xx reply ends the call with a return: the trimmed message content,
\* else the trimmed text, else null for every other shape of the body; it is
\* never followed by a raise or by another request.
C8_ReplyParsing ==
    \A b \in Branches :
      /\ call[b].last.kind = "response"
      /\ call[b].last.status_code = 200
      /\ call[b].last.body.valid
      => /\ call[b].st = "returned"
         /\ call[b].value = Extracted(call[b].last.body)

EndpointOf(b) == IF b = "cat" THEN "categorize_task" ELSE "estimate_time"

FullText ==
    IF req.title # None /\ req.title[1] # <<>>
    THEN req.title[1] \o <<".", " ">> \o req.description[1]
    ELSE req.description[1]

\* what branch b's own call gave: the heuristic of the full text when the
\* call failed or had nothing usable, else what b makes of its own reply
OwnResult(b) ==
    IF use_mock \/ Unusable(b, call[b])
    THEN Return(Heuristic(b, FullText))
    ELSE IF b = "cat" THEN categorize_task(FullText, call[b])
    ELSE estimate_time(FullText, call[b])

\* C10: analyze_task builds its result only when both branches have ended;
\* under every interleaving each field of the result is what its own branch
\* gave: the heuristic of the joined text when that branch's call failed,
\* else the value from that branch's own reply, whatever the other branch did.
C10_BranchesIndependent ==
    req.handler = "analyze_task" =>
      /\ \A b \in Branches : val[b].st # "none" => val[b] = OwnResult(b)
      /\ response.status_code = 200 =>
           /\ \A b \in Branches :
                /\ val[b].st = "return"
                /\ Live => Ended(call[b])
           /\ response.body.category = val["cat"].value[1]
           /\ response.body.estimated_time = val["time"].value[1]

\* the category call failed after the duration call had its second request
\* answered "45": the result has the heuristic category of the joined text
\* and the duration 45
C10_Witness ==
    /\ Live
    /\ req.handler = "analyze_task"
    /\ req.title # None
    /\ pc = "idle"
    /\ call["cat"].st = "raised"
    /\ call["cat"].requests = 3
    /\ call["time"].st = "returned"
    /\ call["time"].requests = 2
    /\ response.status_code = 200
    /\ response.body.category = WORK
    /\ response.body.estimated_time = 45

\* a step of the handler h of the task requests
HandlerStep(h) == req'.handler = h /\ pc = "idle" /\ pc' = "idle"

\* the answer of GET, PUT and DELETE /tasks/{id} to an id no task has
NotFoundAnswer == [status_code |-> 404, body |-> "Task not found"]

\* C11: whatever create, get, list, update and delete requests of the users
\* came before, a GET, PUT or DELETE of /tasks/{id} by a user who does not
\* own the task is answered 404, exactly as for an id no task has, and
\* leaves the tasks as they were; GET /tasks lists only the caller's tasks.
C11_OnlyOwnerSeesOrChanges ==
    [][ /\ \A h \in {"read_task", "update_task", "delete_task"} :
             HandlerStep(h) =>
               /\ (\A t \in tasks : t.id = req'.task_id => t.owner_id # req'.user)
                    => /\ response' = NotFoundAnswer
                       /\ tasks' = tasks
               /\ response'.status_code # 404 =>
                    \E t \in tasks : t.id = req'.task_id /\ t.owner_id = req'.user
        /\ HandlerStep("read_tasks") =>
             /\ response'.status_code = 200
             /\ \A i \in 1..Len(response'.body) :
                  /\ response'.body[i] \in tasks
                  /\ response'.body[i].owner_id = req'.user
      ]_vars

\* user 2 has sent a PUT for the task of user 1: 404, the task is as it was
C11_Witness ==
    /\ req.handler = "update_task"
    /\ req.user = 2
    /\ req.update_data # <<>>
    /\ response = NotFoundAnswer
    /\ \E t \in tasks : t.id = req.task_id /\ t.owner_id = 1

\* C12: a token issued at minute T carries the user's username as subject
\* and T + ACCESS_TOKEN_EXPIRE_MINUTES (30) as expiry; presented at any
\* minute before the expiry it is accepted (the user is returned), at any
\* minute after the expiry it is rejected with 401.
C12_TokenWindow ==
    /\ ACCESS_TOKEN_EXPIRE_MINUTES = 30
    /\ (req.handler = "login" /\ response.status_code = 200) =>
         /\ token = Some(response.body)
         /\ response.body.sub = Some(req.query.username)
         /\ response.body.exp = Some(req.at + 30)
    /\ (req.handler = "read_users_me" /\ token # None /\ req.credentials = token) =>
         /\ req.at < token[1].exp[1] =>
              /\ response.status_code = 200
              /\ response.body.username = token[1].sub[1]
         /\ req.at > token[1].exp[1] => response.status_code = 401

\* the token issued at minute 0 was accepted at minute 29 ... and here is
\* presented at minute 31: 401
C12_Witness ==
    /\ req.handler = "read_users_me"
    /\ token # None
    /\ req.credentials = token
    /\ token[1].exp = Some(30)
    /\ req.at = 31
    /\ response.status_code = 401

\* get_current_user lets the request through
Authenticated(c, at) ==
    /\ c.wellformed
    /\ c.key = SECRET_KEY
    /\ c.exp = None \/ c.exp[1] >= at
    /\ c.sub # None
    /\ \E u \in users : u.username = c.sub[1]

\* C13: get_current_user succeeds only for a token that parses, is signed
\* with the server's key, is not expired and whose subject is exactly the
\* username of a stored user, whom it returns; every failure (signature,
\* malformed, expired, no subject, subject naming no user) gets the one and
\* the same 401 answer, detail and headers included.
C13_UniformRejection ==
    req.handler = "read_users_me" =>
      /\ response.status_code = 200 <=> Authenticated(req.credentials[1], req.at)
      /\ response.status_code = 200 =>
           /\ response.body \in users
           /\ response.body.username = req.credentials[1].sub[1]
      /\ response.status_code # 200 =>
           response = [status_code |-> 401,
                       body |-> "Could not validate credentials",
                       headers |-> "WWW-Authenticate: Bearer"]

\* a token signed with the server's key whose subject names no user: 401
C13_Witness ==
    /\ req.handler = "read_users_me"
    /\ req.credentials[1].wellformed
    /\ req.credentials[1].key = SECRET_KEY
    /\ req.credentials[1].sub = Some("carol")
    /\ response.status_code = 401

\* no two rows of users share an email, a username or an id
UsersUnique ==
    \A u, v \in users :
       u # v => u.email # v.email /\ u.username # v.username /\ u.id # v.id

Supplied(update_data, f) ==
    IF f \in NotNullColumns /\ update_data[f] # None
    THEN update_data[f][1] ELSE update_data[f]

\* C15: a PUT /tasks/{id} by the owner changes exactly the fields its body
\* gives to the values given, and leaves every other field of the task (id
\* and owner included) and every other task as they were.
C15_UpdateChangesExactlyGivenFields ==
    [][ HandlerStep("update_task") =>
          \A t \in tasks :
             (t.id = req'.task_id /\ t.owner_id = req'.user) =>
               tasks' = (tasks \ {t}) \cup
                          { [f \in DOMAIN t |->
                               IF f \in DOMAIN req'.update_data
                               THEN Supplied(req'.update_data, f) ELSE t[f]] }
      ]_vars

\* C16: create_task takes the category from the analyzer only when the body
\* gives no category and has a description, the estimated_time only when
\* the body gives none and has a description; title, description, status,
\* priority and deadline are never changed; the row stored is the body as
\* it then is, so a title-only body is stored with category other and no
\* estimated_time, and a category or estimated_time the body gives is
\* stored as given.
C16_CreateFillsOnlyWhatIsMissing ==
    [][ /\ (req.handler = "create_task" /\ pc # "idle") =>
          /\ \A f \in {"title", "description", "status", "priority",
                       "deadline", "fields_set", "user"} : req'[f] = req[f]
          /\ req'.category # req.category =>
               /\ "category" \notin req.fields_set
               /\ Truthy(req.description)
          /\ req'.estimated_time # req.estimated_time =>
               /\ "estimated_time" \notin req.fields_set
               /\ Truthy(req.description)
        /\ (req.handler = "create_task" /\ pc = "ct_commit") =>
          /\ response'.status_code = 201
          /\ tasks' = tasks \cup {response'.body}
          /\ \A f \in {"description", "status", "priority", "category",
                       "estimated_time", "deadline"} :
                response'.body[f] = req[f]
          /\ response'.body.title = req.title[1]
          /\ response'.body.owner_id = req.user
          /\ req.fields_set = {"title"} =>
               /\ response'.body.category = OTHER_
               /\ response'.body.estimated_time = None
      ]_vars

\* some stem of words is at some position of the lowercased text
Occurs(words, text) ==
    \E w \in words : \E i \in 1..Len(text) :
       /\ i + Len(w) - 1 <= Len(text)
       /\ \A k \in 1..Len(w) : lower(<<text[i + k - 1]>>) = <<w[k]>>

\* a state of the heuristics applied to the text of req on their own
HeuristicOf(b) == req.handler = "none" /\ use_mock /\ val[b].st = "return"

\* C17: the heuristic category of a text is that of the first set, in the
\* order work, personal, health, learning, one of whose stems occurs in the
\* lowercased text, and other exactly when no stem of the four sets occurs.
C17_FirstMatchingSet ==
    HeuristicOf("cat") =>
      LET text == req.description[1]
          got == val["cat"].value[1]
          w == Occurs(work_words, text)
          p == Occurs(personal_words, text)
          h == Occurs(health_words, text)
          l == Occurs(learning_words, text)
      IN
      /\ got = WORK <=> w
      /\ got = PERSONAL <=> ~w /\ p
      /\ got = HEALTH <=> ~w /\ ~p /\ h
      /\ got = LEARNING <=> ~w /\ ~p /\ ~h /\ l
      /\ got = OTHER_ <=> ~w /\ ~p /\ ~h /\ ~l

\* "kurs RABOTA" has a learning stem and, in upper case, a work stem: work
C17_Witness ==
    /\ HeuristicOf("cat")
    /\ req.description[1] =
         <<"k", "u", "r", "s", " ", "R", "A", "B", "O", "T", "A">>
    /\ val["cat"].value[1] = WORK

\* the six values of the heuristic estimate
BucketValues == {15, 60, 240, 480, 120, 30}

\* every value is the estimate of some text
EveryBucketReachable ==
    \A v \in BucketValues :
       \E t \in HeuristicTexts : _get_mock_estimated_time(t) = v

\* C18: the heuristic estimate of a text is the value of the first bucket,
\* in the order short (15), hour (60), half-day (240), day (480), complex
\* (120), one of whose phrases occurs in the lowercased text, and 30 when
\* none does; each of the six values is the estimate of some text.
C18_FirstMatchingBucket ==
    /\ EveryBucketReachable
    /\ HeuristicOf("time") =>
         LET text == req.description[1]
             got == val["time"].value[1]
             s == Occurs(short_words, text)
             h == Occurs(hour_words, text)
             hd == Occurs(halfday_words, text)
             d == Occurs(day_words, text)
             c == Occurs(complex_words, text)
         IN
         /\ got \in BucketValues
         /\ got = 15 <=> s
         /\ got = 60 <=> ~s /\ h
         /\ got = 240 <=> ~s /\ ~h /\ hd
         /\ got = 480 <=> ~s /\ ~h /\ ~hd /\ d
         /\ got = 120 <=> ~s /\ ~h /\ ~hd /\ ~d /\ c
         /\ got = 30 <=> ~s /\ ~h /\ ~hd /\ ~d /\ ~c

\* "4 chasa" has a half-day phrase, but the hour phrase "chas" comes first
C18_Witness ==
    /\ HeuristicOf("time")
    /\ req.description[1] = <<"4", " ", "ch", "a", "s", "a">>
    /\ val["time"].value[1] = 60

\* C19: estimate_time returns an integer of 1..1440 in both modes and never
\* raises: in mock mode the bucket value of the text; in live mode the first
\* integer of the reply clamped to 1..1440 (reply 0 gives 1, reply 2000
\* gives 1440, reply 45 gives 45), the heuristic value when the reply has
\* no digit or the call failed.  So every estimated_time stored by
\* create_task is null or in 1..1440.
C19_EstimateInRange ==
    /\ val["time"].st # "raise"
    /\ val["time"].st = "return" =>
         LET got == val["time"].value[1]
             text == Text(req)
             reply == call["time"].value
         IN
         /\ got \in 1..1440
         /\ use_mock => got = Heuristic("time", text)
         /\ Live =>
              /\ Ended(call["time"])
              /\ Unusable("time", call["time"]) => got = Heuristic("time", text)
              /\ call["time"].st = "returned" =>
                   /\ reply = Some(<<"0">>) => got = 1
                   /\ reply = Some(<<"2", "0", "0", "0">>) => got = 1440
                   /\ reply = Some(<<"4", "5">>) => got = 45
    /\ \A t \in tasks :
         t.estimated_time = None \/ t.estimated_time[1] \in 1..1440

\* the upstream answered 2000: the task is stored with 1440 minutes
C19_Witness ==
    /\ Live
    /\ req.handler = "create_task"
    /\ call["time"].st = "returned"
    /\ call["time"].value = Some(<<"2", "0", "0", "0">>)
    /\ \E t \in tasks : t.estimated_time = Some(1440)

\* low up to 15 minutes, medium from 16 to 60, high from 61
PriorityBoundaries ==
    \A m \in 1..1440 :
       /\ _determine_priority(m) = LOW <=> m <= 15
       /\ _determine_priority(m) = MEDIUM <=> 16 <= m /\ m <= 60
       /\ _determine_priority(m) = HIGH <=> 61 <= m

\* C20: the suggested priority in the result of analyze_task depends on the
\* final duration estimate of the result only (the value after a fallback):
\* low for minutes <= 15, medium for 16..60, high for minutes >= 61.
C20_PriorityFromFinalEstimate ==
    /\ PriorityBoundaries
    /\ (req.handler = "analyze_task" /\ response.status_code = 200) =>
         LET m == response.body.estimated_time
             p == response.body.suggested_priority
         IN
         /\ m = val["time"].value[1]
         /\ p = LOW <=> m <= 15
         /\ p = MEDIUM <=> 16 <= m /\ m <= 60
         /\ p = HIGH <=> 61 <= m

\* the duration call failed; the heuristic of "Srochnyj otchet. ..." is 15
\* minutes, and the priority of the result is low
C20_Witness ==
    /\ Live
    /\ req.handler = "analyze_task"
    /\ call["time"].st = "raised"
    /\ response.status_code = 200
    /\ response.body.estimated_time = 15
    /\ response.body.suggested_priority = LOW


\* an analysis request has been answered with a result
Analysed ==
    req.handler = "analyze_task" /\ pc = "idle" /\ response.status_code = 200

WritingVerbs ==
    { <<"n", "a", "p", "i", "s", "a", "t", "soft">>,
      <<"s", "o", "z", "d", "a", "t", "soft">> }

MeetingNouns ==
    { <<"v", "s", "t", "r", "e", "ch", "a">>, <<"z", "v", "o", "n", "o", "k">> }

\* the first three entries of the template the text selects
ExpectedSubtasks(text) ==
    IF Occurs(WritingVerbs, text)
    THEN <<"research requirements", "make a plan", "prepare a draft">>
    ELSE IF Occurs(MeetingNouns, text)
    THEN <<"prepare the agenda", "invite participants", "hold the meeting">>
    ELSE <<"start work", "do the main part", "check the result">>

\* C21: the subtasks in the result of analyze_task are the first 3 entries,
\* in order, of the template chosen from the joined title-and-description
\* text: research/plan/draft/review when the lowercased text has a writing
\* verb, else the meeting template when it has a meeting noun, else the
\* generic template; the result never has more than 3 subtasks.
C21_SubtasksFirstThree ==
    Analysed =>
      /\ Len(response.body.subtasks) <= 3
      /\ response.body.subtasks = ExpectedSubtasks(FullText)

\* the title has a meeting noun and the description a writing verb: the
\* result has the first three steps of the writing template
C21_Witness ==
    /\ Analysed
    /\ req.title # None
    /\ Occurs(MeetingNouns, req.title[1])
    /\ Occurs(WritingVerbs, req.description[1])
    /\ response.body.subtasks
         = <<"research requirements", "make a plan", "prepare a draft">>


\* a request to one of the three analysis endpoints has been answered
Answered ==
    /\ req.handler \in {"categorize_task", "estimate_time", "analyze_task"}
    /\ pc = "idle"

\* the least length the endpoint of the request is said to accept
SaidMinimum == IF req.handler = "analyze_task" THEN 10 ELSE 5

\* C22: /ai/categorize and /ai/estimate-time accept every request whose
\* description has at least 5 characters and reject shorter ones with a
\* client error; /ai/analyze accepts descriptions of at least 10 characters
\* and rejects shorter ones.
C22_LengthPrecondition ==
    Answered =>
      LET n == Len(req.description[1]) IN
      /\ n >= SaidMinimum => response.status_code = 200
      /\ n < SaidMinimum => response.status_code \in 400..499


Running(b) == call[b].st = "running"

\* a pass of the loop of invocation b that goes back to the loop head of the
\* same call of the function
BackToLoopHead(b) ==
    /\ Running(b)
    /\ call'[b] # call[b]
    /\ call'[b].st = "running"
    /\ call'[b].attempt_number = call[b].attempt_number

\* C23: when every upstream request ends, every invocation of _call_ai_api
\* with its decorator eventually returns or raises; the attempt counter
\* grows on every path back to the loop head; the decorator calls the
\* function at most 3 times; and one invocation sends at most 3 * 3 requests.
C23_CallTerminates ==
    /\ \A b \in Branches : Running(b) ~> Ended(call[b])
    /\ [][\A b \in Branches :
            BackToLoopHead(b) => call'[b].attempt > call[b].attempt]_vars
    /\ [](\A b \in Branches :
            /\ call[b].attempt_number <= 3
            /\ Running(b) => call[b].attempt \in 1..3
            /\ call[b].requests <= 3 * 3)

\* every POST of an invocation timed out: the loop ran 3 times in each of
\* the 3 calls by the decorator, 9 requests were sent, RetryError is raised
C23_Witness ==
    \E b \in Branches :
       /\ call[b].st = "raised"
       /\ call[b].exc.type = "RetryError"
       /\ call[b].attempt_number = 3
       /\ call[b].requests = 9

====
